---- MODULE Spec2Model ----
(***************************************************************************)
(* A model of src/parser.cpp: the macro preprocessor, and the two-pass     *)
(* parser (pass 1 builds the function table, pass 2 validates calls and    *)
(* writes the formatted code).                                             *)
(***************************************************************************)
EXTENDS Naturals, Integers, Sequences, FiniteSets, TLC

VARIABLES
    tokens,         \* Parser::tokens
    position,       \* Parser::position
    formattedCode,  \* Parser::formattedCode, as the sequence of lines written
    functionTable,  \* Parser::functionTable
    pc,             \* where main is: "firstPass", "main", "secondPass", "done"
    result,         \* the string secondPass returned (its lines)
    log,            \* history: one record per parseStatement call
    input,          \* Preprocessor::process: the lines getline will return
    consumed,       \* how many of them getline has returned
    preprocessorMap,\* the global preprocessorMap
    line,           \* the line being expanded
    marks,          \* history: for each character of line, who wrote it
    pending,        \* the entries the for loop over the map has yet to visit
    entry,          \* the key of the entry being substituted
    pos,            \* the inner loop's pos
    turn,           \* history: parity of the inner loop's turns
    matched,        \* history: the marks of the occurrence last replaced
    processedCode,  \* the lines written to processedCode
    ppc,            \* where process is: "getline", "entries", "find", "returned"
    calls,          \* history: how many times process has been called
    sources,        \* history: for each line of processedCode, the number of
                    \* the input line it was written for
    lexInput,       \* Lexer::input
    lexPosition,    \* Lexer::position
    lexLine,        \* Lexer::line
    lexTokens,      \* tokenize's local tokens
    lpc             \* where tokenize is: "loop", "returned"

parserVars == <<tokens, position, formattedCode, functionTable, pc, result, log>>

preprocessorVars ==
    <<input, consumed, preprocessorMap, line, marks, pending, entry, pos, turn,
      matched, processedCode, ppc, calls, sources>>

lexerVars == <<lexInput, lexPosition, lexLine, lexTokens, lpc>>

vars == <<parserVars, preprocessorVars, lexerVars>>

----------------------------------------------------------------------------
(* Bounds of the token sequences pass 1 and pass 2 are run on.             *)

MaxTokens == 4

MaxArguments == 2

----------------------------------------------------------------------------
(* Tokens.                                                                 *)

Token(t, v, l) == [type |-> t, value |-> v, line |-> l]

EndOfFileToken == [type |-> "END_OF_FILE", value |-> "", line |-> -1]

\* The token kinds and texts the bounded token sequences are built from; each
\* is a token Lexer::tokenize produces. The string literals carry the texts
\* the parser compares token texts with.
TokenAlphabet ==
    { [type |-> "IDENTIFIER", value |-> "a"],
      [type |-> "IDENTIFIER", value |-> "b"],
      [type |-> "SYMBOL",     value |-> "("],
      [type |-> "SYMBOL",     value |-> ")"],
      [type |-> "SYMBOL",     value |-> ","],
      [type |-> "LITERAL",    value |-> "1"],
      [type |-> "KEYWORD",    value |-> "select"],
      [type |-> "STRING_LITERAL", value |-> "("],
      [type |-> "STRING_LITERAL", value |-> ")"],
      [type |-> "STRING_LITERAL", value |-> ","] }

\* Token sequences as the lexer numbers them when every token sits on its own
\* line: token i has line i, and the END_OF_FILE token closes the sequence.
Numbered(s) ==
    [i \in 1..Len(s) |-> Token(s[i].type, s[i].value, i)]
        \o <<Token("END_OF_FILE", "", IF Len(s) = 0 THEN 1 ELSE Len(s))>>

BoundedTokenSequences ==
    { Numbered(s) : s \in UNION { [1..n -> TokenAlphabet] : n \in 0..MaxTokens } }

\* select a(1,"x") from t
ExampleSelect ==
    << Token("KEYWORD", "select", 1), Token("IDENTIFIER", "a", 1),
       Token("SYMBOL", "(", 1), Token("LITERAL", "1", 1), Token("SYMBOL", ",", 1),
       Token("STRING_LITERAL", "x", 1), Token("SYMBOL", ")", 1),
       Token("IDENTIFIER", "from", 1), Token("IDENTIFIER", "t", 1),
       Token("END_OF_FILE", "", 1) >>

\* a(1,2) on line 1 and a(3) on line 2
ExampleArity ==
    << Token("IDENTIFIER", "a", 1), Token("SYMBOL", "(", 1), Token("LITERAL", "1", 1),
       Token("SYMBOL", ",", 1), Token("LITERAL", "2", 1), Token("SYMBOL", ")", 1),
       Token("IDENTIFIER", "a", 2), Token("SYMBOL", "(", 2), Token("LITERAL", "3", 2),
       Token("SYMBOL", ")", 2), Token("END_OF_FILE", "", 2) >>

\* f(1,2 with no closing parenthesis
ExampleUnclosed ==
    << Token("IDENTIFIER", "f", 1), Token("SYMBOL", "(", 1), Token("LITERAL", "1", 1),
       Token("SYMBOL", ",", 1), Token("LITERAL", "2", 1), Token("END_OF_FILE", "", 1) >>

\* f(")", 1): a call whose first argument is a string literal that holds a
\* closing parenthesis
ExampleStringDelimiter ==
    << Token("IDENTIFIER", "f", 1), Token("SYMBOL", "(", 1),
       Token("STRING_LITERAL", ")", 1), Token("SYMBOL", ",", 1),
       Token("LITERAL", "1", 1), Token("SYMBOL", ")", 1), Token("END_OF_FILE", "", 1) >>

\* The tokens of name(arguments) with "," between the arguments, with or
\* without the closing parenthesis
RECURSIVE Separated(_)
Separated(arguments) ==
    IF Len(arguments) <= 1 THEN arguments
    ELSE <<Head(arguments), [type |-> "SYMBOL", value |-> ","]>>
            \o Separated(Tail(arguments))

CallTokens(name, arguments, closed) ==
    <<[type |-> "IDENTIFIER", value |-> name], [type |-> "SYMBOL", value |-> "("]>>
        \o Separated(arguments)
        \o (IF closed THEN <<[type |-> "SYMBOL", value |-> ")"]>> ELSE <<>>)

ArgumentAlphabet ==
    { [type |-> "LITERAL", value |-> "1"], [type |-> "IDENTIFIER", value |-> "b"] }

ArgumentLists == UNION { [1..n -> ArgumentAlphabet] : n \in 0..MaxArguments }

\* Two calls one after the other, each of up to MaxArguments arguments
CallPairSequences ==
    { Numbered(CallTokens(n1, a1, c1) \o CallTokens(n2, a2, c2)) :
        <<n1, a1, c1, n2, a2, c2>> \in
            {"a", "b"} \X ArgumentLists \X BOOLEAN \X {"a", "b"} \X ArgumentLists \X BOOLEAN }

TokenInputs ==
    BoundedTokenSequences \cup CallPairSequences
        \cup {ExampleSelect, ExampleArity, ExampleUnclosed, ExampleStringDelimiter}

----------------------------------------------------------------------------
(* Parser: the cursor.                                                     *)

ParserPeek(toks, cursor) ==
    IF cursor < Len(toks) THEN toks[cursor + 1] ELSE EndOfFileToken

AdvancedPosition(toks, cursor) ==
    IF cursor < Len(toks) THEN cursor + 1 ELSE cursor

\* std::to_string of an int
to_string(n) == IF n < 0 THEN "-" \o ToString(0 - n) ELSE ToString(n)

\* writeIndentedLine with indentLevel = 0, which no code changes
IndentedLine(lineText) == lineText

----------------------------------------------------------------------------
(* Parser: pass 1, detectFunctionCall.                                     *)

IsArgument(tok) == tok.type \in {"LITERAL", "IDENTIFIER", "STRING_LITERAL"}

RECURSIVE DetectArguments(_, _, _)
DetectArguments(toks, cursor, arguments) ==
    LET tok == ParserPeek(toks, cursor) IN
    IF tok.value # ")" /\ tok.type # "END_OF_FILE"
    THEN LET collected == IF IsArgument(tok) THEN Append(arguments, tok.value)
                          ELSE arguments
             pos1 == AdvancedPosition(toks, cursor)
             pos2 == IF ParserPeek(toks, pos1).value = ","
                     THEN AdvancedPosition(toks, pos1) ELSE pos1
         IN  DetectArguments(toks, pos2, collected)
    ELSE [arguments |-> arguments, position |-> cursor]

\* Registered as a last-seen-wins table would do it
RegisteredLastSeen(table, name, arguments, definedAt) ==
    [n \in DOMAIN table \cup {name} |->
        IF n = name THEN [name |-> name, argumentTypes |-> arguments, line |-> definedAt]
        ELSE table[n]]

\* functionTable after the registration of lines 206-208
Registered(table, name, arguments, definedAt) ==
    IF name \in DOMAIN table
    THEN table
    ELSE table @@ (name :> [name |-> name, argumentTypes |-> arguments, line |-> definedAt])

\* detectFunctionCall with the registration moved into the branch that found
\* the closing parenthesis
DetectFunctionCallOutcomeClosedOnly(toks, cursor, table) ==
    LET functionName == ParserPeek(toks, cursor)
        pos1 == AdvancedPosition(toks, cursor)
    IN  IF ParserPeek(toks, pos1).value = "("
        THEN LET scan == DetectArguments(toks, AdvancedPosition(toks, pos1), <<>>)
                 closed == ParserPeek(toks, scan.position).value = ")"
                 pos2 == IF closed THEN AdvancedPosition(toks, scan.position)
                         ELSE scan.position
             IN  [position |-> pos2,
                  table |-> IF closed
                            THEN Registered(table, functionName.value, scan.arguments,
                                            functionName.line)
                            ELSE table,
                  call |-> TRUE, arguments |-> scan.arguments, closed |-> closed,
                  lines |-> <<>>]
        ELSE [position |-> pos1, table |-> table, call |-> FALSE,
              arguments |-> <<>>, closed |-> FALSE, lines |-> <<>>]

\* detectFunctionCall with the advance of line 204 made whether or not the
\* scan stopped at a closing parenthesis
DetectFunctionCallOutcomeAlwaysSkips(toks, cursor, table) ==
    LET functionName == ParserPeek(toks, cursor)
        pos1 == AdvancedPosition(toks, cursor)
    IN  IF ParserPeek(toks, pos1).value = "("
        THEN LET scan == DetectArguments(toks, AdvancedPosition(toks, pos1), <<>>)
                 closed == ParserPeek(toks, scan.position).value = ")"
             IN  [position |-> AdvancedPosition(toks, scan.position),
                  table |-> Registered(table, functionName.value, scan.arguments,
                                       functionName.line),
                  call |-> TRUE, arguments |-> scan.arguments, closed |-> closed,
                  lines |-> <<>>]
        ELSE [position |-> pos1, table |-> table, call |-> FALSE,
              arguments |-> <<>>, closed |-> FALSE, lines |-> <<>>]

\* detectFunctionCall from cursor cursor: the cursor and the table it leaves,
\* and what it saw (for the history)
DetectFunctionCallOutcome(toks, cursor, table) ==
    LET functionName == ParserPeek(toks, cursor)
        pos1 == AdvancedPosition(toks, cursor)
    IN  IF ParserPeek(toks, pos1).value = "("
        THEN LET scan == DetectArguments(toks, AdvancedPosition(toks, pos1), <<>>)
                 closed == ParserPeek(toks, scan.position).value = ")"
                 pos2 == IF closed THEN AdvancedPosition(toks, scan.position)
                         ELSE scan.position
             IN  [position |-> pos2,
                  table |-> Registered(table, functionName.value, scan.arguments,
                                       functionName.line),
                  call |-> TRUE, arguments |-> scan.arguments, closed |-> closed,
                  lines |-> <<>>]
        ELSE [position |-> pos1, table |-> table, call |-> FALSE,
              arguments |-> <<>>, closed |-> FALSE, lines |-> <<>>]

----------------------------------------------------------------------------
(* Parser: pass 2, validateFunctionCall.                                   *)

\* The scan of validateFunctionCall without the skip of a "," after a token
RECURSIVE ValidateArgumentsNoCommaSkip(_, _, _)
ValidateArgumentsNoCommaSkip(toks, cursor, arguments) ==
    LET tok == ParserPeek(toks, cursor) IN
    IF tok.value # ")" /\ tok.type # "END_OF_FILE"
    THEN LET collected == IF IsArgument(tok) THEN Append(arguments, tok.value)
                          ELSE arguments
         IN  ValidateArgumentsNoCommaSkip(toks, AdvancedPosition(toks, cursor), collected)
    ELSE [arguments |-> arguments, position |-> cursor]

\* The scan of validateFunctionCall, were it to stop at a "," as well
RECURSIVE ValidateArgumentsStopsAtComma(_, _, _)
ValidateArgumentsStopsAtComma(toks, cursor, arguments) ==
    LET tok == ParserPeek(toks, cursor) IN
    IF tok.value # ")" /\ tok.value # "," /\ tok.type # "END_OF_FILE"
    THEN LET collected == IF IsArgument(tok) THEN Append(arguments, tok.value)
                          ELSE arguments
         IN  ValidateArgumentsStopsAtComma(toks, AdvancedPosition(toks, cursor), collected)
    ELSE [arguments |-> arguments, position |-> cursor]

RECURSIVE ValidateArguments(_, _, _)
ValidateArguments(toks, cursor, arguments) ==
    LET tok == ParserPeek(toks, cursor) IN
    IF tok.value # ")" /\ tok.type # "END_OF_FILE"
    THEN LET collected == IF IsArgument(tok) THEN Append(arguments, tok.value)
                          ELSE arguments
             pos1 == AdvancedPosition(toks, cursor)
             pos2 == IF ParserPeek(toks, pos1).value = ","
                     THEN AdvancedPosition(toks, pos1) ELSE pos1
         IN  ValidateArguments(toks, pos2, collected)
    ELSE [arguments |-> arguments, position |-> cursor]

MissingParenthesisLine == "-- Error: Missing closing parenthesis for function call."

ArityLine(name, definedAt, expected, provided) ==
    "-- Error: Function '" \o name \o "' at line " \o to_string(definedAt) \o " expects "
        \o to_string(expected) \o " arguments, but " \o to_string(provided)
        \o " were provided."

UnknownLine(name, calledAt) ==
    "-- Error: Unknown function '" \o name \o "' at line " \o to_string(calledAt) \o "."

\* ClosingDiagnostic with the test inverted
ClosingDiagnosticInverted(closed) ==
    IF closed THEN <<IndentedLine(MissingParenthesisLine)>> ELSE <<>>

\* What the test for the closing parenthesis writes (lines 229-233)
ClosingDiagnostic(closed) ==
    IF closed THEN <<>> ELSE <<IndentedLine(MissingParenthesisLine)>>

\* TableCheckLines reporting the call site's line in place of the entry's
TableCheckLinesCallSite(table, functionName, arguments) ==
    IF functionName.value \in DOMAIN table
    THEN LET signature == table[functionName.value] IN
         IF Len(signature.argumentTypes) # Len(arguments)
         THEN <<IndentedLine(ArityLine(functionName.value, functionName.line,
                                       Len(signature.argumentTypes), Len(arguments)))>>
         ELSE <<>>
    ELSE <<IndentedLine(UnknownLine(functionName.value, functionName.line))>>

\* The lines the check against the function table writes (lines 236-247)
TableCheckLines(table, functionName, arguments) ==
    IF functionName.value \in DOMAIN table
    THEN LET signature == table[functionName.value] IN
         IF Len(signature.argumentTypes) # Len(arguments)
         THEN <<IndentedLine(ArityLine(functionName.value, signature.line,
                                       Len(signature.argumentTypes), Len(arguments)))>>
         ELSE <<>>
    ELSE <<IndentedLine(UnknownLine(functionName.value, functionName.line))>>

\* TableAfterCheck storing the arguments just collected in the entry
TableAfterCheckStoring(table, functionName, arguments) ==
    [n \in DOMAIN table \cup {functionName.value} |->
        IF n = functionName.value
        THEN [name |-> n, argumentTypes |-> arguments, line |-> functionName.line]
        ELSE table[n]]

\* The function table after the check of lines 236-247: find() and, on a key
\* that is present, operator[] leave it as it is
TableAfterCheck(table, functionName, arguments) == table

\* validateFunctionCall from cursor cursor
ValidateFunctionCallOutcome(toks, cursor, table) ==
    LET functionName == ParserPeek(toks, cursor)
        pos1 == AdvancedPosition(toks, cursor)
        opening == <<IndentedLine(functionName.value \o " (")>>
        closing == <<IndentedLine(");")>>
    IN  IF ParserPeek(toks, pos1).value = "("
        THEN LET scan == ValidateArguments(toks, AdvancedPosition(toks, pos1), <<>>)
                 closed == ParserPeek(toks, scan.position).value = ")"
                 pos2 == IF closed THEN AdvancedPosition(toks, scan.position)
                         ELSE scan.position
                 missing == ClosingDiagnostic(closed)
             IN  [position |-> pos2,
                  table |-> TableAfterCheck(table, functionName, scan.arguments),
                  call |-> TRUE, arguments |-> scan.arguments, closed |-> closed,
                  lines |-> opening \o missing
                            \o TableCheckLines(table, functionName, scan.arguments)
                            \o closing]
        ELSE [position |-> pos1, table |-> table, call |-> FALSE,
              arguments |-> <<>>, closed |-> FALSE, lines |-> opening \o closing]

----------------------------------------------------------------------------
(* Parser: parseStatement, firstPass, secondPass and main.                 *)

\* The test of line 255; peek() is the token itself
IsCallStatement(token) == token.type = "IDENTIFIER" /\ token.value # "("

\* parseStatement from cursor cursor
ParseStatementOutcome(toks, cursor, table, isFirstPass) ==
    LET token == ParserPeek(toks, cursor) IN
    IF IsCallStatement(token)
    THEN IF isFirstPass THEN DetectFunctionCallOutcome(toks, cursor, table)
         ELSE ValidateFunctionCallOutcome(toks, cursor, table)
    ELSE [position |-> AdvancedPosition(toks, cursor), table |-> table, call |-> FALSE,
          arguments |-> <<>>, closed |-> FALSE,
          lines |-> IF token.type = "KEYWORD"
                    THEN <<IndentedLine(token.value)>>
                    ELSE <<IndentedLine(token.value \o ";")>>]

ParseStatement(isFirstPass) ==
    LET token == ParserPeek(tokens, position)
        out == ParseStatementOutcome(tokens, position, functionTable, isFirstPass)
    IN  /\ position' = out.position
        /\ functionTable' = out.table
        /\ formattedCode' = formattedCode \o out.lines
        /\ log' = Append(log, [pass |-> IF isFirstPass THEN 1 ELSE 2,
                               at |-> position, token |-> token,
                               call |-> out.call, arguments |-> out.arguments,
                               closed |-> out.closed, lines |-> out.lines,
                               tableBefore |-> functionTable])
        /\ UNCHANGED <<tokens, result, preprocessorVars, lexerVars>>

EmptyTable == [name \in {} |-> name]

\* The preprocessor's state once process has returned, given no input, and
\* the parser runs
PreprocessorAtRest ==
    /\ input = <<>>
    /\ consumed = 0
    /\ preprocessorMap = EmptyTable
    /\ line = ""
    /\ marks = <<>>
    /\ pending = {}
    /\ entry = ""
    /\ pos = 0
    /\ turn = 0
    /\ matched = <<>>
    /\ processedCode = <<>>
    /\ ppc = "returned"
    /\ calls = 1
    /\ sources = <<>>

\* The lexer's state once tokenize has returned
LexerAtRest ==
    /\ lexInput = ""
    /\ lexPosition = 0
    /\ lexLine = 1
    /\ lexTokens = <<>>
    /\ lpc = "returned"

Init ==
    /\ PreprocessorAtRest
    /\ LexerAtRest
    /\ tokens \in TokenInputs
    /\ position = 0
    /\ formattedCode = <<>>
    /\ functionTable = EmptyTable
    /\ pc = "firstPass"
    /\ result = <<>>
    /\ log = <<>>

\* One turn of firstPass's loop
FirstPassStatement ==
    /\ pc = "firstPass"
    /\ ParserPeek(tokens, position).type # "END_OF_FILE"
    /\ ParseStatement(TRUE)
    /\ pc' = pc

\* firstPass returns to main
FirstPassReturn ==
    /\ pc = "firstPass"
    /\ ParserPeek(tokens, position).type = "END_OF_FILE"
    /\ pc' = "main"
    /\ UNCHANGED <<tokens, position, formattedCode, functionTable, result, log, preprocessorVars, lexerVars>>

\* main calls secondPass, which resets the cursor
SecondPassReset ==
    /\ pc = "main"
    /\ position' = 0
    /\ pc' = "secondPass"
    /\ UNCHANGED <<tokens, formattedCode, functionTable, result, log, preprocessorVars, lexerVars>>

\* One turn of secondPass's loop
SecondPassStatement ==
    /\ pc = "secondPass"
    /\ ParserPeek(tokens, position).type # "END_OF_FILE"
    /\ ParseStatement(FALSE)
    /\ pc' = pc

\* secondPass returns formattedCode.str()
SecondPassReturn ==
    /\ pc = "secondPass"
    /\ ParserPeek(tokens, position).type = "END_OF_FILE"
    /\ result' = formattedCode
    /\ pc' = "done"
    /\ UNCHANGED <<tokens, position, formattedCode, functionTable, log, preprocessorVars, lexerVars>>

Next ==
    \/ FirstPassStatement
    \/ FirstPassReturn
    \/ SecondPassReset
    \/ SecondPassStatement
    \/ SecondPassReturn

Spec == Init /\ [][Next]_vars

----------------------------------------------------------------------------
(* The history, read back.                                                 *)

RECURSIVE Concatenated(_)
Concatenated(seqs) ==
    IF seqs = <<>> THEN <<>> ELSE Head(seqs) \o Concatenated(Tail(seqs))

\* The lines the statements of pass p wrote, in order
PassLines(p) ==
    LET recs == SelectSeq(log, LAMBDA r : r.pass = p)
    IN  Concatenated([i \in 1..Len(recs) |-> recs[i].lines])

\* The history entries of pass p that handled a call (identifier, then "(")
CallEntries(p) == { i \in DOMAIN log : log[i].pass = p /\ log[i].call }

\* The first entry of pass 1 that handled a call of this name
FirstCalls(name) == { i \in CallEntries(1) : log[i].token.value = name }

FirstCall(name) == CHOOSE i \in FirstCalls(name) : \A j \in FirstCalls(name) : i <= j

Occurrences(lineText, lines) == Cardinality({ k \in DOMAIN lines : lines[k] = lineText })

UnknownPrefix == "-- Error: Unknown function"

IsUnknownLine(lineText) ==
    Len(lineText) >= Len(UnknownPrefix) /\ SubSeq(lineText, 1, Len(UnknownPrefix)) = UnknownPrefix

----------------------------------------------------------------------------
(* Claims about the two passes.                                            *)

\* C1: pass 1 writes nothing: while firstPass runs and when it has returned,
\* the emission buffer is empty.
FirstPassLeavesBufferEmpty ==
    pc \in {"firstPass", "main"} => formattedCode = <<>>

\* C2: the text secondPass returns is exactly the lines pass 2 wrote, each
\* statement's lines once and in token order; for select a(1,"x") from t it is
\* the seven lines select, a (, );, from (, );, t (, );.
SecondPassReturnsPassTwoLines ==
    pc = "done" =>
        /\ result = PassLines(2)
        /\ tokens = ExampleSelect =>
             result = <<"select", "a (", ");", "from (", ");", "t (", ");">>

\* C3: at a call site of pass 2 whose name is in the table, the arity line is
\* written if and only if the count M collected at the call site differs from
\* the count N of the first call of that name in pass 1, and it names N, M and
\* the line L of that first call; for a(1,2) a(3) the second call site reports
\* N = 2, M = 1.
ArityDiagnosticIffCountsDiffer ==
    /\ \A i \in CallEntries(2) :
         LET r == log[i]
             name == r.token.value
         IN  name \in DOMAIN r.tableBefore =>
               /\ FirstCalls(name) # {}
               /\ LET first == log[FirstCall(name)]
                      N == Len(first.arguments)
                      M == Len(r.arguments)
                      between == SubSeq(r.lines, 2, Len(r.lines) - 1)
                      diagnostics ==
                          SelectSeq(between, LAMBDA l : l # MissingParenthesisLine)
                  IN  diagnostics =
                        IF M # N THEN <<ArityLine(name, first.token.line, N, M)>>
                        ELSE <<>>
    /\ (tokens = ExampleArity /\ pc = "done") =>
         /\ log[4].lines =
              <<"a (",
                "-- Error: Function 'a' at line 1 expects 2 arguments, but 1 were provided.",
                ");">>
         /\ log[3].lines = <<"a (", ");">>

\* C3 witness: a call site on a later line than the first call of its name has
\* received the arity line.
ArityDiagnosticWritten ==
    \E i \in CallEntries(2) :
        LET name == log[i].token.value IN
        /\ FirstCalls(name) # {}
        /\ log[FirstCall(name)].token.line < log[i].token.line
        /\ Len(log[FirstCall(name)].arguments) # Len(log[i].arguments)
        /\ Len(log[i].lines) = 3

\* C4: first seen wins: an entry, once made, keeps its arguments and line at
\* every later step of pass 1; every name pass 1 handled as a call has its one
\* entry, and the entry holds the arguments and the name token's line of the
\* first such call.
FirstSeenWins ==
    /\ \A i \in DOMAIN log :
         log[i].pass = 1 =>
           \A n \in DOMAIN log[i].tableBefore :
             n \in DOMAIN functionTable /\ functionTable[n] = log[i].tableBefore[n]
    /\ DOMAIN functionTable = { log[i].token.value : i \in CallEntries(1) }
    /\ \A n \in DOMAIN functionTable :
         functionTable[n] =
            [name |-> n, argumentTypes |-> log[FirstCall(n)].arguments,
             line |-> log[FirstCall(n)].token.line]
    /\ (tokens = ExampleArity /\ pc # "firstPass") =>
         functionTable["a"].argumentTypes = <<"1", "2">>

\* C4 witness: pass 1 has handled two calls of one name with different
\* arguments.
NameCalledTwiceInPassOne ==
    \E i, j \in CallEntries(1) :
        /\ i < j
        /\ log[i].token.value = log[j].token.value
        /\ log[i].arguments # log[j].arguments

\* C5: no step of pass 2 changes the function table, and no step of either
\* pass changes the token sequence.
TableReadOnlyInSecondPass ==
    [][ /\ pc = "secondPass" => functionTable' = functionTable
        /\ tokens' = tokens ]_vars

\* C5 witness: pass 2 has finished after looking a call up in the table and
\* after handling an identifier that no "(" follows.
SecondPassLookedUp ==
    /\ pc = "done"
    /\ \E i \in CallEntries(2) : log[i].token.value \in DOMAIN functionTable
    /\ \E i \in DOMAIN log :
         log[i].pass = 2 /\ log[i].token.type = "IDENTIFIER" /\ ~log[i].call

\* No token with the text ")" follows the "(" of the call whose name is at
\* cursor position at
NoClosingAfter(at) == \A j \in (at + 3)..Len(tokens) : tokens[j].value # ")"

\* C6: a call of pass 2 whose argument scan meets no ")" before END_OF_FILE
\* gets exactly one missing-parenthesis line, after its "<name> (" line and
\* before its ");" line; a call whose ")" is found gets none; both wrapping
\* lines are written either way. A ")" is a token whose text is ")", as the
\* scan tests it.
MissingParenthesisReported ==
    \A i \in CallEntries(2) :
        LET r == log[i]
            n == Len(r.lines)
        IN  /\ n >= 2
            /\ r.lines[1] = r.token.value \o " ("
            /\ r.lines[n] = ");"
            /\ Occurrences(MissingParenthesisLine, SubSeq(r.lines, 2, n - 1)) =
                 IF NoClosingAfter(r.at) THEN 1 ELSE 0

\* C6 witness: pass 2 has handled a call with no closing parenthesis.
UnclosedCallHandled ==
    \E i \in CallEntries(2) : NoClosingAfter(log[i].at) /\ Len(log[i].arguments) > 0

\* C7: every call pass 2 handles has its entry in the function table, and no
\* unknown-function line is ever written.
UnknownFunctionNeverReported ==
    /\ \A i \in CallEntries(2) : log[i].token.value \in DOMAIN log[i].tableBefore
    /\ \A k \in DOMAIN formattedCode : ~IsUnknownLine(formattedCode[k])

\* C7 witness: pass 2 has handled a call whose scan ran to END_OF_FILE, and a
\* call of a second name.
SecondPassHandledCalls ==
    \E i, j \in CallEntries(2) :
        /\ log[i].token.value # log[j].token.value
        /\ ~log[j].closed

----------------------------------------------------------------------------
(* Claims about the cursor and the two passes.                             *)

\* The cursor position of the END_OF_FILE token
EndOfFileIndex == Len(tokens) - 1

\* The history entries of pass p, in order
PassEntries(p) == SelectSeq(log, LAMBDA r : r.pass = p)

\* C17: each pass is a linear scan that finishes. Its first statement starts
\* at cursor 0; every statement starts before the END_OF_FILE token and
\* leaves the cursor further on than it found it, so that the statements of
\* a pass start at strictly increasing cursors; the cursor never passes the
\* END_OF_FILE token; and when a pass has returned the cursor is on that
\* token.
PassesScanForward ==
    /\ position <= EndOfFileIndex
    /\ (pc = "firstPass" /\ log = <<>>) => position = 0
    /\ (pc = "secondPass" /\ PassEntries(2) = <<>>) => position = 0
    /\ pc \in {"main", "done"} => position = EndOfFileIndex
    /\ \A i \in DOMAIN log :
         /\ log[i].at < EndOfFileIndex
         /\ (i = 1 \/ log[i - 1].pass # log[i].pass) => log[i].at = 0
         /\ (i > 1 /\ log[i - 1].pass = log[i].pass) => log[i - 1].at < log[i].at
    /\ (log # <<>> /\ ~(pc = "secondPass" /\ log[Len(log)].pass = 1)) =>
         log[Len(log)].at < position

\* C17 witness: both passes have finished on a sequence of several
\* statements, one of them a call with arguments.
BothPassesFinished ==
    /\ pc = "done"
    /\ Len(PassEntries(1)) >= 2
    /\ Len(PassEntries(2)) >= 2
    /\ \E i \in CallEntries(2) : Len(log[i].arguments) >= 1

IsSymbol(tok, text) == tok.type = "SYMBOL" /\ tok.value = text

\* The argument scan with Symbol tokens alone as delimiters: it stops at a
\* ")" symbol or at END_OF_FILE and skips a "," symbol after a token
RECURSIVE ArgumentsBySymbols(_, _, _)
ArgumentsBySymbols(toks, cursor, arguments) ==
    LET tok == ParserPeek(toks, cursor) IN
    IF ~IsSymbol(tok, ")") /\ tok.type # "END_OF_FILE"
    THEN LET collected == IF IsArgument(tok) THEN Append(arguments, tok.value)
                          ELSE arguments
             pos1 == AdvancedPosition(toks, cursor)
             pos2 == IF IsSymbol(ParserPeek(toks, pos1), ",")
                     THEN AdvancedPosition(toks, pos1) ELSE pos1
         IN  ArgumentsBySymbols(toks, pos2, collected)
    ELSE [arguments |-> arguments, position |-> cursor]

\* C18: call delimiters are Symbol tokens only. An identifier statement is
\* handled as a call exactly when a "(" symbol follows the name; the
\* arguments of a call are those collected up to the first ")" symbol, with
\* "," symbols skipped, a string literal whose text is "(", ")" or "," being
\* an argument like any other; the call f(")", 1) has two arguments.
DelimitersAreSymbols ==
    /\ \A i \in DOMAIN log :
         log[i].token.type = "IDENTIFIER" =>
            /\ log[i].call <=> IsSymbol(ParserPeek(tokens, log[i].at + 1), "(")
            /\ log[i].call =>
                 LET scan == ArgumentsBySymbols(tokens, log[i].at + 2, <<>>)
                 IN  /\ log[i].arguments = scan.arguments
                     /\ log[i].closed = IsSymbol(ParserPeek(tokens, scan.position), ")")
    /\ tokens = ExampleStringDelimiter =>
         \A i \in DOMAIN log : log[i].call => Len(log[i].arguments) = 2

ArityPrefix == "-- Error: Function '"

HasPrefix(lineText, prefix) ==
    /\ Len(lineText) >= Len(prefix)
    /\ SubSeq(lineText, 1, Len(prefix)) = prefix

IsArityLine(lineText) == HasPrefix(lineText, ArityPrefix)

\* C19: the two passes segment the token sequence identically: statement by
\* statement pass 2 starts at the cursor where pass 1 started, takes the
\* statement for a call when pass 1 did and collects the same arguments, and
\* when both have finished they have handled as many statements. Hence pass
\* 2 writes no arity line for the call that was the first of its name.
PassesSegmentIdentically ==
    LET first == PassEntries(1)
        second == PassEntries(2)
    IN  /\ Len(second) <= Len(first)
        /\ pc = "done" => Len(second) = Len(first)
        /\ \A i \in DOMAIN second :
             /\ second[i].at = first[i].at
             /\ second[i].token = first[i].token
             /\ second[i].call = first[i].call
             /\ second[i].arguments = first[i].arguments
             /\ second[i].closed = first[i].closed
        /\ \A i \in CallEntries(2) :
             log[i].at = log[FirstCall(log[i].token.value)].at =>
                \A k \in DOMAIN log[i].lines : ~IsArityLine(log[i].lines[k])

\* C19 witness: both passes have finished; a name was called twice with
\* different argument counts, and a "," followed an argument.
SegmentedTwice ==
    /\ pc = "done"
    /\ \E i, j \in CallEntries(2) :
         /\ i < j
         /\ log[i].token.value = log[j].token.value
         /\ Len(log[i].arguments) # Len(log[j].arguments)
         /\ Len(log[i].arguments) >= 2

\* The lines of formattedCode that are the missing-parenthesis line
MissingParenthesisLines ==
    { k \in DOMAIN formattedCode : formattedCode[k] = IndentedLine(MissingParenthesisLine) }

\* C20: the missing-parenthesis line is terminal and unique. The output holds
\* it at most once; once it is written the cursor is on the END_OF_FILE token
\* and the output ends with ");", with nothing between the two lines but at
\* most one arity line, which is about the call whose "<name> (" line
\* precedes the missing-parenthesis line; what secondPass returns is that
\* output.
MissingParenthesisIsTerminal ==
    LET n == Len(formattedCode) IN
    /\ Cardinality(MissingParenthesisLines) <= 1
    /\ \A k \in MissingParenthesisLines :
         /\ position = EndOfFileIndex
         /\ pc \in {"secondPass", "done"}
         /\ formattedCode[n] = IndentedLine(");")
         /\ k > 1
         /\ \/ k = n - 1
            \/ /\ k = n - 2
               /\ IsArityLine(formattedCode[n - 1])
               /\ \E name \in { tokens[j].value : j \in DOMAIN tokens } :
                    /\ formattedCode[k - 1] = IndentedLine(name \o " (")
                    /\ HasPrefix(formattedCode[n - 1],
                                 ArityPrefix \o name \o "' at line ")
    /\ pc = "done" => result = formattedCode

\* C20 witness: secondPass has returned an output whose last three lines are
\* the missing-parenthesis line, an arity line and ");".
MissingParenthesisThenArity ==
    /\ pc = "done"
    /\ Len(result) >= 4
    /\ result[Len(result) - 2] = IndentedLine(MissingParenthesisLine)
    /\ IsArityLine(result[Len(result) - 1])

----------------------------------------------------------------------------
(* Preprocessor::process.                                                  *)

MaxLines == 4

\* The input lines the bounded inputs are built from: directives (a chain of
\* two macros, a macro whose name occurs in its own replacement, a directive
\* with no name, one with no replacement) and lines to expand
InputLines ==
    { "#define A B", "#define B C", "#define A AA", "#define", "#define A",
      "A", "AB", "" }

\* #define FOO bar followed by a use of FOO
ExampleSubstitution == <<"#define FOO bar", "FOO(1)">>

\* A directive with blanks around its name and around its replacement text
ExampleTrimmed == <<"#define  A   B C  ", "A">>

\* A line whose first word only starts with #define
ExampleLongerWord == <<"#defineX A B", "A">>

\* A line with a space before #define
ExampleIndented == <<" #define A B", "A">>

PreprocessorInputs ==
    UNION { [1..n -> InputLines] : n \in 0..MaxLines }
        \cup {ExampleSubstitution, ExampleTrimmed, ExampleLongerWord, ExampleIndented}

npos == -1

Least(S) == CHOOSE p \in S : \A q \in S : p <= q

\* std::string::find(key, pos), positions counted from 0
Find(s, key, from) ==
    IF key = ""
    THEN IF from <= Len(s) THEN from ELSE npos
    ELSE LET hits == { p \in from..(Len(s) - Len(key)) :
                         SubSeq(s, p + 1, p + Len(key)) = key }
         IN  IF hits = {} THEN npos ELSE Least(hits)

\* std::string::replace(p, count, with)
Replaced(s, p, count, with) ==
    SubSeq(s, 1, p) \o with \o SubSeq(s, p + count + 1, Len(s))

IsSpace(c) == c \in {" ", "\t"}

\* The index (from 1) of the first character at or after i that is no space,
\* Len(s) + 1 when there is none
RECURSIVE SkipSpaces(_, _)
SkipSpaces(s, i) ==
    IF i <= Len(s) /\ IsSpace(SubSeq(s, i, i)) THEN SkipSpaces(s, i + 1) ELSE i

\* The index of the first space at or after i, Len(s) + 1 when there is none
RECURSIVE WordEnd(_, _)
WordEnd(s, i) ==
    IF i <= Len(s) /\ ~IsSpace(SubSeq(s, i, i)) THEN WordEnd(s, i + 1) ELSE i

RECURSIVE TrimRight(_)
TrimRight(s) ==
    IF Len(s) > 0 /\ IsSpace(SubSeq(s, Len(s), Len(s)))
    THEN TrimRight(SubSeq(s, 1, Len(s) - 1)) ELSE s

\* regex_replace(value, "^\\s+|\\s+$", "")
Trimmed(s) == TrimRight(SubSeq(s, SkipSpaces(s, 1), Len(s)))

\* A test that finds #define anywhere in the line
IsDefineAnywhere(s) == Find(s, "#define", 0) # npos

\* line.find("#define") == 0
IsDefine(s) == Find(s, "#define", 0) = 0

\* defineStream >> directive >> key; getline(defineStream, value); trim.
\* An extraction that runs into the end of the stream leaves the stream unfit
\* for the next read, which then leaves its string empty.
DefineParts(s) ==
    LET dFrom == SkipSpaces(s, 1)
        dTo == WordEnd(s, dFrom)
        kFrom == SkipSpaces(s, dTo)
        kTo == WordEnd(s, kFrom)
        keyRead == dTo <= Len(s) /\ kFrom <= Len(s)
        restRead == keyRead /\ kTo <= Len(s)
    IN  [directive |-> SubSeq(s, dFrom, dTo - 1),
         key |-> IF keyRead THEN SubSeq(s, kFrom, kTo - 1) ELSE "",
         value |-> IF restRead THEN Trimmed(SubSeq(s, kTo, Len(s))) ELSE ""]

\* An insertion that keeps the value a key already has
AssignedKeepsFirst(map, key, value) ==
    [k \in DOMAIN map \cup {key} |-> IF k \in DOMAIN map THEN map[k] ELSE value]

\* preprocessorMap[key] = value
Assigned(map, key, value) ==
    [k \in DOMAIN map \cup {key} |-> IF k = key THEN value ELSE map[k]]

\* What a define line adds to processedCode, were the line copied to the output
DefineOutputEcho(s) == <<s>>

\* What a define line adds to processedCode, with a blank line kept in its place
DefineOutputBlank(s) == <<"">>

\* What a define line adds to processedCode (lines 138-145): nothing
DefineOutput(s) == <<>>

\* pos after a replacement at p (line 151)
PosAfterReplace(p, value) == p + Len(value)

Original == <<>>

PreprocessInit ==
    /\ tokens = <<EndOfFileToken>>
    /\ position = 0
    /\ formattedCode = <<>>
    /\ functionTable = EmptyTable
    /\ pc = "done"
    /\ result = <<>>
    /\ log = <<>>
    /\ input \in PreprocessorInputs
    /\ consumed = 0
    /\ preprocessorMap = EmptyTable
    /\ line = ""
    /\ marks = <<>>
    /\ pending = {}
    /\ entry = ""
    /\ pos = 0
    /\ turn = 0
    /\ matched = <<>>
    /\ processedCode = <<>>
    /\ ppc = "getline"
    /\ calls = 1
    /\ sources = <<>>
    /\ LexerAtRest

\* getline returns a define line: the directive is stored (lines 138-145)
GetDefineLine ==
    /\ ppc = "getline"
    /\ consumed < Len(input)
    /\ IsDefine(input[consumed + 1])
    /\ LET parts == DefineParts(input[consumed + 1])
       IN  preprocessorMap' = Assigned(preprocessorMap, parts.key, parts.value)
    /\ consumed' = consumed + 1
    /\ line' = input[consumed + 1]
    /\ marks' = [i \in 1..Len(input[consumed + 1]) |-> Original]
    /\ processedCode' = processedCode \o DefineOutput(input[consumed + 1])
    /\ UNCHANGED <<calls, sources, input, pending, entry, pos, turn, matched, ppc, parserVars, lexerVars>>

\* getline returns another line: the for loop over the map starts (line 147)
GetOtherLine ==
    /\ ppc = "getline"
    /\ consumed < Len(input)
    /\ ~IsDefine(input[consumed + 1])
    /\ consumed' = consumed + 1
    /\ line' = input[consumed + 1]
    /\ marks' = [i \in 1..Len(input[consumed + 1]) |-> Original]
    /\ pending' = DOMAIN preprocessorMap
    /\ matched' = <<>>
    /\ ppc' = "entries"
    /\ UNCHANGED <<calls, sources, input, preprocessorMap, entry, pos, turn, processedCode, parserVars, lexerVars>>

\* The for loop takes the next entry, in the unordered_map's order, which is
\* any order (lines 147-148)
NextEntry ==
    /\ ppc = "entries"
    /\ \E k \in pending :
         /\ entry' = k
         /\ pending' = pending \ {k}
    /\ pos' = 0
    /\ matched' = <<>>
    /\ ppc' = "find"
    /\ UNCHANGED <<calls, sources, input, consumed, preprocessorMap, line, marks, turn,
                   processedCode, parserVars, lexerVars>>

\* One turn of the while loop: an occurrence is found and replaced
\* (lines 149-152)
ReplaceOccurrence ==
    /\ ppc = "find"
    /\ Find(line, entry, pos) # npos
    /\ LET p == Find(line, entry, pos)
           value == preprocessorMap[entry]
       IN  /\ line' = Replaced(line, p, Len(entry), value)
           /\ marks' = SubSeq(marks, 1, p) \o [i \in 1..Len(value) |-> <<entry>>]
                         \o SubSeq(marks, p + Len(entry) + 1, Len(marks))
           /\ matched' = SubSeq(marks, p + 1, p + Len(entry))
           /\ pos' = PosAfterReplace(p, value)
    /\ turn' = 1 - turn
    /\ UNCHANGED <<calls, sources, input, consumed, preprocessorMap, pending, entry, processedCode,
                   ppc, parserVars, lexerVars>>

\* The while loop ends: find returned npos (line 149)
NoOccurrence ==
    /\ ppc = "find"
    /\ Find(line, entry, pos) = npos
    /\ ppc' = "entries"
    /\ UNCHANGED <<calls, sources, input, consumed, preprocessorMap, line, marks, pending, entry, pos,
                   turn, matched, processedCode, parserVars, lexerVars>>

\* The for loop is over: the line is written (line 154)
WriteLine ==
    /\ ppc = "entries"
    /\ pending = {}
    /\ processedCode' = Append(processedCode, line)
    /\ sources' = Append(sources, consumed)
    /\ ppc' = "getline"
    /\ UNCHANGED <<calls, input, consumed, preprocessorMap, line, marks, pending, entry, pos,
                   turn, matched, parserVars, lexerVars>>

\* getline fails at the end of the input: process returns (lines 136, 158)
ProcessReturn ==
    /\ ppc = "getline"
    /\ consumed = Len(input)
    /\ ppc' = "returned"
    /\ UNCHANGED <<calls, sources, input, consumed, preprocessorMap, line, marks, pending, entry, pos,
                   turn, matched, processedCode, parserVars, lexerVars>>

PreprocessNext ==
    \/ GetDefineLine
    \/ GetOtherLine
    \/ NextEntry
    \/ ReplaceOccurrence
    \/ NoOccurrence
    \/ WriteLine
    \/ ProcessReturn

Preprocess == PreprocessInit /\ [][PreprocessNext]_vars

\* process is called a second time, on the text its first call returned: the
\* locals start afresh (lines 132-135), preprocessorMap is the global of
\* line 44 and keeps its entries
ProcessAgain ==
    /\ ppc = "returned"
    /\ calls = 1
    /\ calls' = 2
    /\ input' = processedCode
    /\ consumed' = 0
    /\ line' = ""
    /\ marks' = <<>>
    /\ pending' = {}
    /\ entry' = ""
    /\ pos' = 0
    /\ matched' = <<>>
    /\ processedCode' = <<>>
    /\ sources' = <<>>
    /\ ppc' = "getline"
    /\ UNCHANGED <<preprocessorMap, turn, parserVars, lexerVars>>

PreprocessTwiceNext ==
    \/ PreprocessNext
    \/ ProcessAgain

PreprocessTwice == PreprocessInit /\ [][PreprocessTwiceNext]_vars

----------------------------------------------------------------------------
(* Claims about the preprocessor.                                          *)

\* C8: macro expansion terminates on every input text, a self-referential
\* macro and a define line with no name included: the substitution loop
\* finishes. What a turn of the while loop does depends on the line, pos and
\* the entry alone, so the loop finishes only if no turn leaves the line and
\* pos as it found them: such a turn repeats for ever.
MacroExpansionTerminates ==
    [][ (ppc = "find" /\ ppc' = "find") => <<line, pos>>' # <<line, pos>> ]_vars

\* C9: text inserted as a replacement is never scanned again, by the same
\* macro or by any other: every occurrence replaced is made of characters of
\* the input line only; with #define A B and #define B C the line A expands
\* to B.
ReplacementNeverRescanned ==
    /\ \A i \in DOMAIN matched : matched[i] = Original
    /\ (input = <<"#define A B", "#define B C", "A">> /\ ppc = "returned") =>
         processedCode = <<"B">>

\* What the while loop does keep (less than C9): while an entry is
\* substituted, all the text it inserted lies before pos, and no occurrence it
\* replaces holds a character it inserted itself.
ReplacementNotRescannedBySameMacro ==
    ppc = "find" =>
        /\ \A i \in DOMAIN marks : marks[i] = <<entry>> => i <= pos
        /\ \A i \in DOMAIN matched : matched[i] # <<entry>>
        /\ Len(marks) = Len(line)

\* The case of a macro whose name occurs in its replacement: A, defined as AA,
\* has replaced the A of the line "A", and the scan goes on after the inserted
\* text.
SelfReferentialMacroExpanded ==
    /\ ppc = "find"
    /\ entry = "A"
    /\ preprocessorMap[entry] = "AA"
    /\ line = "AA"
    /\ pos = 2
    /\ matched = <<Original>>

\* C10: the expanded output has as many lines as the input.
LineCountPreserved ==
    ppc = "returned" => Len(processedCode) = Len(input)

StartsWithDefine(s) == Len(s) >= 7 /\ SubSeq(s, 1, 7) = "#define"

DefineLinesIn(n) == { i \in 1..n : StartsWithDefine(input[i]) }

\* C10, amended: the output has one line per input line that does not start
\* with #define: at every point as many lines are written as such lines are
\* fully processed, and when process returns the output has the input's line
\* count less the number of define lines.
OutputHasOneLinePerOtherLine ==
    /\ Len(processedCode) =
         consumed - Cardinality(DefineLinesIn(consumed))
            - (IF ppc \in {"entries", "find"} THEN 1 ELSE 0)
    /\ ppc = "returned" =>
         Len(processedCode) = Len(input) - Cardinality(DefineLinesIn(Len(input)))

\* C10 witness: process has returned fewer lines than it was given, and at
\* least one.
DefineLinesDropped ==
    /\ ppc = "returned"
    /\ Len(processedCode) >= 1
    /\ Len(processedCode) < Len(input)

\* The number of input lines process is done with: a line being expanded is
\* not done
LinesDone == consumed - (IF ppc \in {"entries", "find"} THEN 1 ELSE 0)

\* C11: no line recognised as a define directive appears in the output, and
\* every other input line contributes exactly one output line, in input
\* order: the lines written so far come, one each and in increasing order,
\* from exactly the lines done that are no define lines; #define FOO bar
\* followed by FOO(1) yields the single line bar(1).
DefineLinesConsumed ==
    LET others == { i \in 1..LinesDone : ~StartsWithDefine(input[i]) }
    IN  /\ Len(sources) = Len(processedCode)
        /\ Len(sources) = Cardinality(others)
        /\ \A k \in DOMAIN sources :
             /\ sources[k] \in others
             /\ k > 1 => sources[k - 1] < sources[k]
        /\ (input = ExampleSubstitution /\ ppc = "returned") =>
             processedCode = <<"bar(1)">>

\* C11 witness: process has returned the expansion of the example, one line
\* for the two lines it was given.
SubstitutionExampleExpanded ==
    /\ ppc = "returned"
    /\ input = ExampleSubstitution
    /\ sources = <<2>>
    /\ processedCode = <<"bar(1)">>

\* The first word of a line, and the word after it
FirstWord(s) == SubSeq(s, SkipSpaces(s, 1), WordEnd(s, SkipSpaces(s, 1)) - 1)

SecondWordFrom(s) == SkipSpaces(s, WordEnd(s, SkipSpaces(s, 1)))

SecondWord(s) == SubSeq(s, SecondWordFrom(s), WordEnd(s, SecondWordFrom(s)) - 1)

RestAfterSecondWord(s) == SubSeq(s, WordEnd(s, SecondWordFrom(s)), Len(s))

\* The define lines among the first n input lines
DefinesBefore(n) == { i \in 1..n : StartsWithDefine(input[i]) }

Greatest(S) == CHOOSE p \in S : \A q \in S : q <= p

\* The Macro Table the define lines among the first n input lines build: each
\* name maps to the replacement of the latest line that defines it
TableBuiltFrom(n) ==
    [k \in { SecondWord(input[i]) : i \in DefinesBefore(n) } |->
        LET latest == Greatest({ i \in DefinesBefore(n) : SecondWord(input[i]) = k })
        IN  Trimmed(RestAfterSecondWord(input[latest]))]

\* C12: each non-define line is expanded with exactly the Macro Table built
\* from the define lines before it, the latest definition of a name
\* replacing the earlier ones; a define line is never expanded itself; and
\* no later step, a later define line included, changes a line already
\* written.
ExpandedWithPrecedingDefines ==
    /\ [](/\ ppc \in {"entries", "find"} =>
              /\ ~StartsWithDefine(input[consumed])
              /\ preprocessorMap = TableBuiltFrom(consumed - 1)
          /\ (consumed >= 1 /\ StartsWithDefine(input[consumed])) =>
              /\ ppc \in {"getline", "returned"}
              /\ line = input[consumed])
    /\ [][ /\ Len(processedCode') >= Len(processedCode)
           /\ SubSeq(processedCode', 1, Len(processedCode)) = processedCode ]_vars

\* C12 witness: a line was expanded after its macro had been defined twice,
\* and a define line followed it.
RedefinedMacroExpanded ==
    /\ ppc = "returned"
    /\ input = <<"#define A B", "#define A AA", "A", "#define A B">>
    /\ processedCode = <<"AA">>

\* C13: a line is treated as a directive exactly when its first word is
\* #define: the lines done that were not written to the output are those
\* whose first word is #define (so #defineX A B is written and
\* " #define A B" is not), and once such a line is done its second word is a
\* name of the Macro Table, mapped to the trimmed rest of the line.
DirectiveIffFirstWordIsDefine ==
    /\ \A i \in 1..LinesDone :
         (FirstWord(input[i]) = "#define") <=>
            (\A k \in DOMAIN sources : sources[k] # i)
    /\ (ppc = "getline" /\ consumed >= 1 /\ FirstWord(input[consumed]) = "#define") =>
         /\ SecondWord(input[consumed]) \in DOMAIN preprocessorMap
         /\ preprocessorMap[SecondWord(input[consumed])] =
              Trimmed(RestAfterSecondWord(input[consumed]))

\* C14: with the Macro Table empty on entry and no define line in the input,
\* process returns the input unchanged line for line, and so does a second
\* call on what the first returned: at every point of either call the lines
\* written are the lines done.
MacroFreeInputUnchanged ==
    ( /\ \A i \in DOMAIN input : ~StartsWithDefine(input[i])
      /\ calls = 1 \/ preprocessorMap = EmptyTable ) =>
        /\ processedCode = SubSeq(input, 1, LinesDone)
        /\ ppc = "returned" => processedCode = input

\* C14 witness: the second call has returned, unchanged, the macro-free text
\* of two lines or more that the first call returned.
SecondCallReturnedInput ==
    /\ calls = 2
    /\ ppc = "returned"
    /\ preprocessorMap = EmptyTable
    /\ Len(input) >= 2
    /\ \E i \in DOMAIN input : input[i] = "AB"
    /\ processedCode = input

----------------------------------------------------------------------------
(* Lexer::tokenize.                                                        *)

MaxChars == 5

\* The characters the bounded inputs are built from: two letters (d, o and
\* do are an identifier, an identifier and a keyword), a digit, the double
\* quote, a punctuation character, a blank and a newline
LexChars == {"d", "o", "1", "\"", "(", " ", "\n"}

RECURSIVE Text(_)
Text(chars) == IF chars = <<>> THEN "" ELSE chars[1] \o Text(Tail(chars))

\* A call with a string literal that holds a parenthesis
ExampleStringArgument == "f(\")\", 1)"

\* A keyword in upper case, alone on the second line of three
ExampleUpperCase == "\nDO\n"

LexerInputs ==
    { Text(chars) : chars \in UNION { [1..n -> LexChars] : n \in 0..MaxChars } }
        \cup {ExampleStringArgument, ExampleUpperCase}

\* What peek returns at the end of the input: '\0'
NUL == "<NUL>"

isspace(c) == c \in {" ", "\t", "\n"}

isalpha(c) == c \in {"d", "o", "f", "D", "O"}

isdigit(c) == c \in {"1"}

isalnum(c) == isalpha(c) \/ isdigit(c)

ispunct(c) == c \in {"(", ")", ",", "\"", "_"}

tolower(c) == IF c = "D" THEN "d" ELSE IF c = "O" THEN "o" ELSE c

RECURSIVE LowerCase(_)
LowerCase(s) ==
    IF s = "" THEN "" ELSE tolower(SubSeq(s, 1, 1)) \o LowerCase(SubSeq(s, 2, Len(s)))

keywords ==
    {"select", "insert", "update", "delete", "create", "table", "begin", "end",
     "declare", "do", "values"}

\* Lexer::peek, for the input s and the scanning state st = [position, line]
LexPeek(s, st) ==
    IF st.position < Len(s) THEN SubSeq(s, st.position + 1, st.position + 1) ELSE NUL

\* An advance that never counts a line
LexAdvanceKeepsLine(s, st) == [position |-> st.position + 1, line |-> st.line]

\* Lexer::advance: the scanning state after it
LexAdvance(s, st) ==
    [position |-> st.position + 1,
     line |-> IF LexPeek(s, st) = "\n" THEN st.line + 1 ELSE st.line]

\* Lexer::skipWhitespace
RECURSIVE SkipWhitespace(_, _)
SkipWhitespace(s, st) ==
    IF isspace(LexPeek(s, st)) THEN SkipWhitespace(s, LexAdvance(s, st)) ELSE st

\* The loop of handleIdentifierOrKeyword: the text read and the state after
RECURSIVE IdentifierFrom(_, _, _)
IdentifierFrom(s, st, value) ==
    IF isalnum(LexPeek(s, st)) \/ LexPeek(s, st) = "_"
    THEN IdentifierFrom(s, LexAdvance(s, st), value \o LexPeek(s, st))
    ELSE [value |-> value, st |-> st]

\* Lexer::handleIdentifierOrKeyword
HandleIdentifierOrKeyword(s, st) ==
    LET read == IdentifierFrom(s, st, "")
        type == IF LowerCase(read.value) \in keywords THEN "KEYWORD" ELSE "IDENTIFIER"
    IN  [token |-> Token(type, read.value, read.st.line), st |-> read.st]

RECURSIVE LiteralFrom(_, _, _)
LiteralFrom(s, st, value) ==
    IF isdigit(LexPeek(s, st))
    THEN LiteralFrom(s, LexAdvance(s, st), value \o LexPeek(s, st))
    ELSE [value |-> value, st |-> st]

\* Lexer::handleLiteral
HandleLiteral(s, st) ==
    LET read == LiteralFrom(s, st, "")
    IN  [token |-> Token("LITERAL", read.value, read.st.line), st |-> read.st]

\* Lexer::handleSymbol
HandleSymbol(s, st) ==
    [token |-> Token("SYMBOL", LexPeek(s, st), LexAdvance(s, st).line),
     st |-> LexAdvance(s, st)]

\* The loop of handleStringLiteral
RECURSIVE StringFrom(_, _, _)
StringFrom(s, st, value) ==
    IF LexPeek(s, st) # "\"" /\ LexPeek(s, st) # NUL
    THEN StringFrom(s, LexAdvance(s, st), value \o LexPeek(s, st))
    ELSE [value |-> value, st |-> st]

\* A string literal whose text keeps its two quotes
HandleStringLiteralWithQuotes(s, st) ==
    LET read == StringFrom(s, LexAdvance(s, st), "\"")
        closed == LexPeek(s, read.st) = "\""
        after == IF closed THEN LexAdvance(s, read.st) ELSE read.st
    IN  [token |-> Token("STRING_LITERAL",
                         IF closed THEN read.value \o "\"" ELSE read.value,
                         after.line),
         st |-> after]

\* Lexer::handleStringLiteral
HandleStringLiteral(s, st) ==
    LET read == StringFrom(s, LexAdvance(s, st), "")
        after == IF LexPeek(s, read.st) = "\"" THEN LexAdvance(s, read.st) ELSE read.st
    IN  [token |-> Token("STRING_LITERAL", read.value, after.line), st |-> after]

\* The scanning state of the lexer
LexState == [position |-> lexPosition, line |-> lexLine]

\* The state after the skipWhitespace of a loop turn, and the character there
Skipped == SkipWhitespace(lexInput, LexState)

current == LexPeek(lexInput, Skipped)

LexInit ==
    /\ tokens = <<EndOfFileToken>>
    /\ position = 0
    /\ formattedCode = <<>>
    /\ functionTable = EmptyTable
    /\ pc = "done"
    /\ result = <<>>
    /\ log = <<>>
    /\ PreprocessorAtRest
    /\ lexInput \in LexerInputs
    /\ lexPosition = 0
    /\ lexLine = 1
    /\ lexTokens = <<>>
    /\ lpc = "loop"

\* A loop turn that pushes the token a handler returns
Pushed(handled) ==
    /\ lexTokens' = Append(lexTokens, handled.token)
    /\ lexPosition' = handled.st.position
    /\ lexLine' = handled.st.line
    /\ UNCHANGED <<lexInput, lpc, parserVars, preprocessorVars>>

\* A loop turn that meets a letter or an underscore (lines 111-112)
TokenizeIdentifierOrKeyword ==
    /\ lpc = "loop"
    /\ lexPosition < Len(lexInput)
    /\ isalpha(current) \/ current = "_"
    /\ Pushed(HandleIdentifierOrKeyword(lexInput, Skipped))

\* A loop turn that meets a digit (lines 113-114)
TokenizeLiteral ==
    /\ lpc = "loop"
    /\ lexPosition < Len(lexInput)
    /\ ~(isalpha(current) \/ current = "_")
    /\ isdigit(current)
    /\ Pushed(HandleLiteral(lexInput, Skipped))

\* A loop turn that meets a double quote (lines 115-116)
TokenizeStringLiteral ==
    /\ lpc = "loop"
    /\ lexPosition < Len(lexInput)
    /\ ~(isalpha(current) \/ current = "_")
    /\ ~isdigit(current)
    /\ current = "\""
    /\ Pushed(HandleStringLiteral(lexInput, Skipped))

\* A loop turn that meets another punctuation character (lines 117-118)
TokenizeSymbol ==
    /\ lpc = "loop"
    /\ lexPosition < Len(lexInput)
    /\ ~(isalpha(current) \/ current = "_")
    /\ ~isdigit(current)
    /\ current # "\""
    /\ ispunct(current)
    /\ Pushed(HandleSymbol(lexInput, Skipped))

\* A loop turn that meets anything else, the end of the input after
\* whitespace included: advance (lines 119-121)
TokenizeOther ==
    /\ lpc = "loop"
    /\ lexPosition < Len(lexInput)
    /\ ~(isalpha(current) \/ current = "_")
    /\ ~isdigit(current)
    /\ current # "\""
    /\ ~ispunct(current)
    /\ lexPosition' = LexAdvance(lexInput, Skipped).position
    /\ lexLine' = LexAdvance(lexInput, Skipped).line
    /\ UNCHANGED <<lexInput, lexTokens, lpc, parserVars, preprocessorVars>>

\* The loop is over: END_OF_FILE is pushed and the tokens returned
\* (lines 123-124)
TokenizeReturn ==
    /\ lpc = "loop"
    /\ lexPosition >= Len(lexInput)
    /\ lexTokens' = Append(lexTokens, Token("END_OF_FILE", "", lexLine))
    /\ lpc' = "returned"
    /\ UNCHANGED <<lexInput, lexPosition, lexLine, parserVars, preprocessorVars>>

LexNext ==
    \/ TokenizeIdentifierOrKeyword
    \/ TokenizeLiteral
    \/ TokenizeStringLiteral
    \/ TokenizeSymbol
    \/ TokenizeOther
    \/ TokenizeReturn

Lex == LexInit /\ [][LexNext]_vars

----------------------------------------------------------------------------
(* Claims about the lexer.                                                 *)

\* The number of newline characters of s
Newlines(s) == Cardinality({ i \in 1..Len(s) : SubSeq(s, i, i) = "\n" })

\* C15: tokenize terminates: every loop turn moves the position forward, and
\* the position never exceeds the input's length by more than one. The
\* sequence returned holds exactly one END_OF_FILE token, at its end, whose
\* line is one more than the number of newlines of the input; every token's
\* line is at least 1 and the lines never decrease along the sequence.
TokenizeEndsWithEndOfFile ==
    /\ [](/\ lexPosition <= Len(lexInput) + 1
          /\ \A i \in DOMAIN lexTokens :
               /\ lexTokens[i].line >= 1
               /\ i > 1 => lexTokens[i - 1].line <= lexTokens[i].line
               /\ (lexTokens[i].type = "END_OF_FILE") <=>
                    (lpc = "returned" /\ i = Len(lexTokens))
          /\ lpc = "returned" =>
               /\ Len(lexTokens) >= 1
               /\ lexTokens[Len(lexTokens)].line = 1 + Newlines(lexInput))
    /\ [][ lpc = "loop" => (lexPosition' > lexPosition \/ lpc' = "returned") ]_vars

\* C15 witness: tokenize has returned the tokens of an input of several
\* lines, with tokens on different lines.
TokenizedSeveralLines ==
    /\ lpc = "returned"
    /\ Newlines(lexInput) >= 2
    /\ Len(lexTokens) >= 3
    /\ lexTokens[1].line < lexTokens[2].line

RECURSIVE TokenTexts(_)
TokenTexts(toks) ==
    IF toks = <<>> THEN "" ELSE toks[1].value \o TokenTexts(Tail(toks))

\* s without its whitespace
RECURSIVE WithoutWhitespace(_)
WithoutWhitespace(s) ==
    IF s = "" THEN ""
    ELSE (IF SubSeq(s, 1, 1) \in {" ", "\t", "\n"} THEN "" ELSE SubSeq(s, 1, 1))
            \o WithoutWhitespace(SubSeq(s, 2, Len(s)))

\* C16: the texts of the returned tokens, concatenated in order, are the
\* input with its whitespace removed.
TokenTextsAreInputWithoutWhitespace ==
    lpc = "returned" => TokenTexts(lexTokens) = WithoutWhitespace(lexInput)

\* s without its double quotes and without the whitespace that lies outside
\* a pair of double quotes; quoted tells whether s starts inside a pair
RECURSIVE Content(_, _)
Content(s, quoted) ==
    IF s = "" THEN ""
    ELSE LET c == SubSeq(s, 1, 1)
             rest == SubSeq(s, 2, Len(s))
         IN  IF c = "\"" THEN Content(rest, ~quoted)
             ELSE IF ~quoted /\ c \in {" ", "\t", "\n"} THEN Content(rest, quoted)
             ELSE c \o Content(rest, quoted)

\* C16, amended: the texts of the tokens, concatenated in order, are the
\* input without the double quotes that delimit string literals and without
\* the whitespace outside string literals; whitespace inside a string
\* literal is kept. This holds after every loop turn of the part of the
\* input read so far.
TokenTextsAreInputContent ==
    /\ lexPosition <= Len(lexInput) =>
         TokenTexts(lexTokens) = Content(SubSeq(lexInput, 1, lexPosition), FALSE)
    /\ lpc = "returned" => TokenTexts(lexTokens) = Content(lexInput, FALSE)

\* C16 witness: tokenize has returned a string literal that holds a blank,
\* among other tokens.
StringLiteralWithBlankReturned ==
    /\ lpc = "returned"
    /\ Len(lexTokens) >= 3
    /\ \E i \in DOMAIN lexTokens :
         /\ lexTokens[i].type = "STRING_LITERAL"
         /\ \E k \in 1..Len(lexTokens[i].value) :
              SubSeq(lexTokens[i].value, k, k) = " "

====
